---- MODULE Spec2Model ----
(***************************************************************************)
(* MobileWheelsDatabase: the two MkDocs plugin variants (mobilewheelsdb,   *)
(* mobilewheels) and the build-and-serve driver script db_runner.py.       *)
(*                                                                         *)
(* Strings are sequences of one-character strings.  A fixed literal of the *)
(* source whose inside no operation looks at is kept as one element.       *)
(* Python's None is the one-element sequence None.                         *)
(***************************************************************************)
EXTENDS Integers, Sequences, FiniteSets, TLC

VARIABLES
  \* ---- the plugin object and the host's build (plugin.py) ----
  variant,      \* "mobilewheelsdb" | "mobilewheels": which plugin.py is loaded
  cfg,          \* self.config: database_url, page_path, page_title
  site_url,     \* config['site_url'] of the host
  plugin_dir,   \* self.plugin_dir: Unset until on_config
  assets_dir,   \* self.assets_dir: Unset until on_config
  tmplExists,   \* plugin_dir/templates/search_page.html exists
  tmpl,         \* its content
  pages,        \* the pages the host renders: "site" | "every" (see PagesOf)
  srcExists,    \* the plugin's assets directory exists
  srcDir,       \* its entries: name -> Absent | IsDir | content
  docs,         \* docs_dir/mobilewheels_assets: name -> Absent | content
  site,         \* site_dir/mobilewheels_assets: name -> Absent | content
  remote,       \* the release host at the wasm_release URL: "ok" | "unreachable" | "broken"
  phase,        \* the last lifecycle callback the host invoked
  inOrder,      \* every invocation so far followed the lifecycle order
  builds,       \* completed builds (on_post_build returns)
  call,         \* the last callback invocation and what it did
  \* ---- the driver script (db_runner.py) ----
  drv           \* main()'s position, inputs and effects

pluginVars == <<variant, cfg, site_url, plugin_dir, assets_dir, tmplExists, tmpl,
                pages, srcExists, srcDir, docs, site, remote, phase, inOrder,
                builds, call>>
vars == <<pluginVars, drv>>

(***************************************************************************)
(* Strings                                                                 *)
(***************************************************************************)
None == <<"None">>

\* Python truthiness of an Optional[str]
Truthy(s) == s /= None /\ s /= <<>>

\* s.rstrip('/')
RECURSIVE RStripSlash(_)
RStripSlash(s) ==
  IF s /= <<>> /\ s[Len(s)] = "/" THEN RStripSlash(SubSeq(s, 1, Len(s) - 1)) ELSE s

\* s.find(c) for c in cs, 1-based; 0 when none occurs
FindAny(s, cs) ==
  LET hits == {i \in 1..Len(s) : s[i] \in cs}
  IN  IF hits = {} THEN 0 ELSE CHOOSE i \in hits : \A j \in hits : i <= j

IsPrefix(p, s) == Len(p) <= Len(s) /\ SubSeq(s, 1, Len(p)) = p

\* the sequences over alphabet a of length at most n
SeqsUpTo(a, n) == UNION {[1..k -> a] : k \in 0..n}

RECURSIVE Concat(_)
Concat(ss) == IF ss = <<>> THEN <<>> ELSE Head(ss) \o Concat(Tail(ss))

(***************************************************************************)
(* urllib.parse.urlparse(url).path, as on_page_content uses it             *)
(***************************************************************************)
\* urllib's scheme_chars, within the model's alphabet
SchemeChars == {"s", "a"}

\* urlsplit: "scheme:" is split off when the text before the first ':' is a
\* non-empty run of scheme characters starting with a letter
AfterScheme(url) ==
  LET i == FindAny(url, {":"})
  IN  IF i > 1 /\ \A j \in 1..(i - 1) : url[j] \in SchemeChars
      THEN SubSeq(url, i + 1, Len(url))
      ELSE url

\* urlsplit: after "//" the netloc runs to the first of '/', '?', '#'
AfterNetloc(rest) ==
  IF Len(rest) >= 2 /\ rest[1] = "/" /\ rest[2] = "/"
  THEN LET r == SubSeq(rest, 3, Len(rest))
           d == FindAny(r, {"/", "?", "#"})
       IN  IF d = 0 THEN <<>> ELSE SubSeq(r, d, Len(r))
  ELSE rest

\* urlsplit: the fragment is cut at the first '#', then the query at the first '?'
UrlPath(url) ==
  LET r == AfterNetloc(AfterScheme(url))
      d == FindAny(r, {"?", "#"})
  IN  IF d = 0 THEN r ELSE SubSeq(r, 1, d - 1)

(***************************************************************************)
(* on_page_content, mobilewheelsdb variant                                 *)
(***************************************************************************)
MD == <<".", "m", "d">>
ASSETS_URL == <<"/", "mobilewheels_assets">>

\* a slip: the parsed path keeps its trailing slashes
BasePathNoStrip(siteUrl) ==
  LET base_url == RStripSlash(siteUrl)
  IN  IF base_url /= <<>> THEN UrlPath(base_url) ELSE <<>>

\* lines 76-83: base_path
BasePath(siteUrl) ==
  LET base_url == RStripSlash(siteUrl)
  IN  IF base_url /= <<>> THEN RStripSlash(UrlPath(base_url)) ELSE <<>>

\* lines 86-89: db_url
DbUrl(database_url, siteUrl) ==
  IF Truthy(database_url) THEN database_url
  ELSE IF BasePath(siteUrl) /= <<>> THEN BasePath(siteUrl) \o ASSETS_URL
       ELSE ASSETS_URL

\* lines 92-97: the injected text
Injection(db_url) ==
  <<"\n<script>\n  window.MOBILEWHEELS_DB_URL = '">> \o db_url \o <<"';\n</script>\n">>
  \o <<"<script src=\"">> \o db_url \o <<"/package-search.js\"></script>\n">>

\* a slip: the page path compared without the ".md" the code appends
MatchesDbExact(src_path, page_path) == Truthy(page_path) /\ src_path = page_path

\* line 74: the page test
MatchesDb(src_path, page_path) == Truthy(page_path) /\ src_path = page_path \o MD

\* lines 71-102
PageContentDb(html, src_path, page_path, database_url, siteUrl) ==
  IF MatchesDb(src_path, page_path)
  THEN html \o Injection(DbUrl(database_url, siteUrl))
  ELSE html

(***************************************************************************)
(* on_page_content, mobilewheels variant                                   *)
(***************************************************************************)
PLACEHOLDER ==
  <<"{", "{", "D", "A", "T", "A", "B", "A", "S", "E", "_", "U", "R", "L", "}", "}">>

\* f"{x}": None formats as the text None
FStr(x) == IF x = None THEN <<"N", "o", "n", "e">> ELSE x

\* a slip: str.replace(old, new, 1), the first occurrence only
StrReplaceFirst(s, old, new) ==
  LET hits == {i \in 1..(Len(s) - Len(old) + 1) : SubSeq(s, i, i + Len(old) - 1) = old}
  IN  IF hits = {} THEN s
      ELSE LET i == CHOOSE h \in hits : \A j \in hits : h <= j
           IN  SubSeq(s, 1, i - 1) \o new \o SubSeq(s, i + Len(old), Len(s))

\* str.replace(old, new): the occurrences of old, left to right, not overlapping
RECURSIVE StrReplace(_, _, _)
StrReplace(s, old, new) ==
  IF Len(s) < Len(old) THEN s
  ELSE IF SubSeq(s, 1, Len(old)) = old
       THEN new \o StrReplace(SubSeq(s, Len(old) + 1, Len(s)), old, new)
       ELSE <<Head(s)>> \o StrReplace(Tail(s), old, new)

\* line 71: the page test
MatchesMw(src_path, title, page_path, page_title) ==
  src_path = FStr(page_path) \o MD \/ title = page_title

\* line 73
DbUrlMw(database_url) == IF Truthy(database_url) THEN database_url ELSE ASSETS_URL

\* lines 68-86
PageContentMw(html, src_path, title, page_path, page_title, database_url, tExists, t) ==
  IF MatchesMw(src_path, title, page_path, page_title) /\ tExists
  THEN StrReplace(t, PLACEHOLDER, DbUrlMw(database_url))
  ELSE html

(***************************************************************************)
(* The file system the callbacks stage assets in                           *)
(***************************************************************************)
JS    == <<"package-search", ".js">>
WASM  == <<"MobileWheelsDatabase", ".wasm">>
EXTRA == <<"icons", ".wasm">>
AssetNames == {JS, WASM, EXTRA}

Absent == <<"ABSENT">>
IsDir  == <<"DIR">>
Stale  == <<"stale">>
\* what the plugin ships under the name n, and what the release host serves
Shipped(n) == <<n[1]>>
RELEASE == <<"release">>
PARTIAL == <<"release-cut">>

IsFile(e) == e /= Absent /\ e /= IsDir
Exists(e) == e /= Absent

\* item.name.endswith('.wasm')
EndsWithWasm(n) == n[2] = ".wasm"

\* a slip: the destination opened for appending
CopyAssetsAppend(src, dst, skipWasm) ==
  [n \in AssetNames |->
     IF IsFile(src[n]) /\ ~(skipWasm /\ EndsWithWasm(n))
     THEN IF Exists(dst[n]) THEN dst[n] \o src[n] ELSE src[n]
     ELSE dst[n]]

\* a slip: a file already at the destination is kept
CopyAssetsKeep(src, dst, skipWasm) ==
  [n \in AssetNames |->
     IF IsFile(src[n]) /\ ~(skipWasm /\ EndsWithWasm(n)) /\ ~Exists(dst[n])
     THEN src[n] ELSE dst[n]]

\* for item in assets_dir.iterdir(): if item.is_file() [and not .wasm]: copy2(item, dst/name)
CopyAssets(src, dst, skipWasm) ==
  [n \in AssetNames |->
     IF IsFile(src[n]) /\ ~(skipWasm /\ EndsWithWasm(n)) THEN src[n] ELSE dst[n]]

(***************************************************************************)
(* The bounded inputs                                                      *)
(***************************************************************************)
MaxStemLen == 2
MaxTmplPieces == 2
MaxUrlLen == 7

Variants == {"mobilewheelsdb", "mobilewheels"}
Remotes == {"ok", "unreachable", "broken"}

Stems == SeqsUpTo({"p"}, MaxStemLen)
SrcPaths == {s \o x : s \in Stems, x \in {<<>>, MD, <<".", "m">>, MD \o MD}}
CfgPaths == {s \o x : s \in Stems, x \in {<<>>, MD}}
AllPages == [src_path : SrcPaths, title : {<<"T">>, <<"U">>}, html : {<<>>, <<"a">>}]
Templates == {Concat(ps) : ps \in SeqsUpTo({PLACEHOLDER, <<"a">>, <<"{">>}, MaxTmplPieces)}
DbUrls == {None, <<>>, <<"u">>}
SiteUrls == SeqsUpTo({"s", ":", "/", "?"}, MaxUrlLen)

Cfg(path, url) == [page_path |-> path, database_url |-> url, page_title |-> <<"T">>]

\* the pages the host hands to on_page_content: every page of the bounded page
\* space, or a site of two pages, the search page p.md and the page p
PathP == <<"p">>
SitePages == {[src_path |-> PathP \o MD, title |-> <<"U">>, html |-> <<"a">>],
              [src_path |-> PathP, title |-> <<"U">>, html |-> <<"a">>]}
PagesOf(tag) == IF tag = "every" THEN AllPages ELSE SitePages

(***************************************************************************)
(* The plugin's lifecycle callbacks                                        *)
(***************************************************************************)
MaxBuilds == 2

Unset == "unset"
PLUGIN_DIR == "plugin"
ASSETS_DIR == "plugin/assets"

NoPage == [src_path |-> <<>>, title |-> None, html |-> <<>>]
NoDir  == [n \in AssetNames |-> Absent]

\* what an invocation did: the fields it read, whether one of them was unset
\* (AttributeError), whether it raised, the page and the HTML it returned, the
\* destination before it ran, the writes to the WASM path, the printed ERROR
NoCall == [name |-> "none", reads |-> {}, unsetRead |-> FALSE, raised |-> FALSE,
           page |-> NoPage, ret |-> <<>>, before |-> NoDir, writes |-> <<>>,
           error |-> FALSE]

\* the host's order: config, files, page_content*, post_build, and again
Allowed(ph, cb) ==
  CASE cb = "on_config"       -> ph \in {"new", "on_post_build"}
    [] cb = "on_files"        -> ph = "on_config"
    [] cb = "on_page_content" -> ph \in {"on_files", "on_page_content"}
    [] cb = "on_post_build"   -> ph \in {"on_files", "on_page_content"}

Callable == phase /= "aborted" /\ builds < MaxBuilds

\* the part of an invocation every callback shares
Invoked(cb, c) ==
  /\ call' = [c EXCEPT !.name = cb]
  /\ phase' = IF c.raised THEN "aborted" ELSE cb
  /\ inOrder' = (inOrder /\ Allowed(phase, cb))

\* a slip: on_config stores plugin_dir and forgets assets_dir
OnConfigNoAssets ==
  /\ Callable
  /\ plugin_dir' = PLUGIN_DIR
  /\ assets_dir' = assets_dir
  /\ Invoked("on_config", NoCall)
  /\ UNCHANGED <<variant, cfg, site_url, tmplExists, tmpl, pages, srcExists, srcDir,
                 docs, site, remote, builds, drv>>

\* lines 36-48 (mobilewheelsdb), 33-45 (mobilewheels)
OnConfig ==
  /\ Callable
  /\ plugin_dir' = PLUGIN_DIR
  /\ assets_dir' = ASSETS_DIR
  /\ Invoked("on_config", NoCall)
  /\ UNCHANGED <<variant, cfg, site_url, tmplExists, tmpl, pages, srcExists, srcDir,
                 docs, site, remote, builds, drv>>

\* lines 50-65 (mobilewheelsdb), 47-62 (mobilewheels)
OnFiles ==
  /\ Callable
  /\ IF assets_dir = Unset
     THEN /\ Invoked("on_files", [NoCall EXCEPT !.reads = {"assets_dir"},
                                  !.unsetRead = TRUE, !.raised = TRUE, !.before = docs])
          /\ docs' = docs
     ELSE /\ Invoked("on_files", [NoCall EXCEPT !.reads = {"assets_dir"}, !.before = docs])
          /\ docs' = IF srcExists THEN CopyAssets(srcDir, docs, FALSE) ELSE docs
  /\ UNCHANGED <<variant, cfg, site_url, plugin_dir, assets_dir, tmplExists, tmpl, pages,
                 srcExists, srcDir, site, remote, builds, drv>>

\* lines 67-102 (mobilewheelsdb), 64-86 (mobilewheels); self.plugin_dir is read
\* only by the mobilewheels variant, and only for a page that passes its test
OnPageContent ==
  /\ Callable
  /\ \E pg \in PagesOf(pages) :
       IF variant = "mobilewheelsdb"
       THEN Invoked("on_page_content",
              [NoCall EXCEPT !.page = pg,
                 !.ret = PageContentDb(pg.html, pg.src_path, cfg.page_path,
                                       cfg.database_url, site_url)])
       ELSE IF MatchesMw(pg.src_path, pg.title, cfg.page_path, cfg.page_title)
            THEN IF plugin_dir = Unset
                 THEN Invoked("on_page_content",
                        [NoCall EXCEPT !.page = pg, !.reads = {"plugin_dir"},
                           !.unsetRead = TRUE, !.raised = TRUE])
                 ELSE Invoked("on_page_content",
                        [NoCall EXCEPT !.page = pg, !.reads = {"plugin_dir"},
                           !.ret = PageContentMw(pg.html, pg.src_path, pg.title,
                                     cfg.page_path, cfg.page_title, cfg.database_url,
                                     tmplExists, tmpl)])
            ELSE Invoked("on_page_content", [NoCall EXCEPT !.page = pg, !.ret = pg.html])
  /\ UNCHANGED <<variant, cfg, site_url, plugin_dir, assets_dir, tmplExists, tmpl, pages,
                 srcExists, srcDir, docs, site, remote, builds, drv>>

\* a slip: the bundled copy written after the download whether it failed or not
FetchWasmBoth(dst, bundled, rem) ==
  LET base == [dir |-> dst, writes |-> <<>>, error |-> FALSE, raised |-> FALSE]
      got  == CASE rem = "ok" -> [base EXCEPT !.dir = [dst EXCEPT ![WASM] = RELEASE],
                                               !.writes = <<"remote">>]
                [] rem = "broken" -> [base EXCEPT !.dir = [dst EXCEPT ![WASM] = PARTIAL],
                                                   !.writes = <<"remote-partial">>]
                [] rem = "unreachable" -> base
  IN  IF Exists(dst[WASM]) THEN base
      ELSE IF IsFile(bundled)
           THEN [got EXCEPT !.dir = [got.dir EXCEPT ![WASM] = bundled],
                            !.writes = got.writes \o <<"bundled">>]
           ELSE [got EXCEPT !.error = (rem /= "ok"), !.raised = Exists(bundled)]

\* lines 119-139 (mobilewheelsdb): the download, then the bundled fallback.
\* urlretrieve opens the destination once the host answers, so a transfer that
\* breaks off leaves the bytes received so far at the destination.
FetchWasm(dst, bundled, rem) ==
  LET base == [dir |-> dst, writes |-> <<>>, error |-> FALSE, raised |-> FALSE]
      cut  == IF rem = "broken"
              THEN [base EXCEPT !.dir = [dst EXCEPT ![WASM] = PARTIAL],
                                !.writes = <<"remote-partial">>]
              ELSE base
  IN  IF Exists(dst[WASM]) THEN base
      ELSE IF rem = "ok"
           THEN [base EXCEPT !.dir = [dst EXCEPT ![WASM] = RELEASE],
                             !.writes = <<"remote">>]
           ELSE IF Exists(bundled)
                THEN IF IsFile(bundled)
                     THEN [cut EXCEPT !.dir = [cut.dir EXCEPT ![WASM] = bundled],
                                      !.writes = cut.writes \o <<"bundled">>]
                     ELSE [cut EXCEPT !.raised = TRUE]
                ELSE [cut EXCEPT !.error = TRUE]

\* on_post_build of the variant v, with assets_dir set
PostBuild(v, dst, sExists, src, rem) ==
  IF v = "mobilewheelsdb"
  THEN FetchWasm(IF sExists THEN CopyAssets(src, dst, TRUE) ELSE dst, src[WASM], rem)
  ELSE [dir |-> IF sExists THEN CopyAssets(src, dst, FALSE) ELSE dst,
        writes |-> <<>>, error |-> FALSE, raised |-> FALSE]

\* lines 104-141 (mobilewheelsdb), 88-103 (mobilewheels)
OnPostBuild ==
  /\ Callable
  /\ IF assets_dir = Unset
     THEN /\ Invoked("on_post_build", [NoCall EXCEPT !.reads = {"assets_dir"},
                                       !.unsetRead = TRUE, !.raised = TRUE, !.before = site])
          /\ UNCHANGED <<site, builds>>
     ELSE LET r == PostBuild(variant, site, srcExists, srcDir, remote)
          IN  /\ Invoked("on_post_build",
                   [NoCall EXCEPT !.reads = {"assets_dir"}, !.before = site,
                      !.writes = r.writes, !.error = r.error, !.raised = r.raised])
              /\ site' = r.dir
              /\ builds' = IF r.raised THEN builds ELSE builds + 1
  /\ UNCHANGED <<variant, cfg, site_url, plugin_dir, assets_dir, tmplExists, tmpl, pages,
                 srcExists, srcDir, docs, remote, drv>>

(***************************************************************************)
(* The driver script: main() of db_runner.py                               *)
(***************************************************************************)
Prev  == <<"previous-build">>
Fresh == <<"fresh-build">>

DrvIdle == [pc |-> "start", skip_arg |-> FALSE, skip_env |-> FALSE,
            wasm_src |-> Absent, wasm_dest |-> Absent, wasm_docs |-> Absent,
            destNewer |-> FALSE, built |-> FALSE, buildResult |-> "none",
            binary |-> "unchecked", copied |-> FALSE, skipMsg |-> FALSE,
            served |-> FALSE, exit |-> -1]

\* line 17
SkipBuild(d) == d.skip_arg \/ d.skip_env

\* lines 12-34: chdir, skip_build, the build command
DrvStart ==
  /\ drv.pc = "start"
  /\ drv' = [drv EXCEPT !.pc = "try"]
  /\ UNCHANGED pluginVars

\* lines 36-37, 63-65: subprocess.run(build_cmd, check=True).  A missing swift
\* executable raises FileNotFoundError, which nothing catches: status 1.
DrvBuild ==
  /\ drv.pc = "try"
  /\ \E res \in {"ok", "fail", "nocmd"}, produced \in BOOLEAN :
       drv' = IF res = "ok"
              THEN [drv EXCEPT !.pc = "copy", !.built = TRUE, !.buildResult = res,
                      !.wasm_src = IF produced THEN Fresh ELSE @]
              ELSE [drv EXCEPT !.pc = "exited", !.built = TRUE, !.buildResult = res,
                      !.exit = 1]
  /\ UNCHANGED pluginVars

\* a slip: a missing binary is reported and the script goes on
DrvCopyNoExit ==
  /\ drv.pc = "copy"
  /\ drv' = IF Exists(drv.wasm_src)
            THEN [drv EXCEPT !.pc = "else", !.binary = "found",
                    !.wasm_dest = drv.wasm_src, !.wasm_docs = drv.wasm_src,
                    !.destNewer = FALSE, !.copied = TRUE]
            ELSE [drv EXCEPT !.pc = "else", !.binary = "missing"]
  /\ UNCHANGED pluginVars

\* lines 39-62: the binary is copied beside the script and into docs/assets
DrvCopy ==
  /\ drv.pc = "copy"
  /\ drv' = IF Exists(drv.wasm_src)
            THEN [drv EXCEPT !.pc = "else", !.binary = "found",
                    !.wasm_dest = drv.wasm_src, !.wasm_docs = drv.wasm_src,
                    !.destNewer = FALSE, !.copied = TRUE]
            ELSE [drv EXCEPT !.pc = "exited", !.binary = "missing", !.exit = 1]
  /\ UNCHANGED pluginVars

\* lines 66-75: the else clause of the try statement
DrvElse ==
  /\ drv.pc = "else"
  /\ drv' = IF Exists(drv.wasm_dest) /\ (~Exists(drv.wasm_docs) \/ drv.destNewer)
            THEN [drv EXCEPT !.pc = "serve", !.skipMsg = TRUE,
                    !.wasm_docs = drv.wasm_dest, !.destNewer = FALSE]
            ELSE [drv EXCEPT !.pc = "serve", !.skipMsg = TRUE]
  /\ UNCHANGED pluginVars

\* lines 77-87: mkdocs serve
DrvServe ==
  /\ drv.pc = "serve"
  /\ \E res \in {"ok", "interrupt", "fail"} :
       drv' = [drv EXCEPT !.pc = "exited", !.served = TRUE,
                 !.exit = IF res = "fail" THEN 1 ELSE 0]
  /\ UNCHANGED pluginVars

(***************************************************************************)
(* Initial states                                                          *)
(***************************************************************************)
\* the plugin's own assets directory, as installed
SrcDirs ==
  {[n \in AssetNames |-> CASE k[n] = "file" -> Shipped(n)
                           [] k[n] = "dir"  -> IsDir
                           [] k[n] = "none" -> Absent] :
     k \in [AssetNames -> {"file", "dir", "none"}]}
Installed == [n \in AssetNames |-> Shipped(n)]

\* a build that has not started: nothing invoked, both fields unset
InitNew ==
  /\ plugin_dir = Unset /\ assets_dir = Unset
  /\ phase = "new" /\ inOrder = TRUE /\ builds = 0 /\ call = NoCall

\* the asset stager's environment: any assets directory, any leftovers at the
\* two destinations, any state of the release host; a two-page site
InitStage ==
  /\ InitNew
  /\ drv = DrvIdle
  /\ variant \in Variants
  /\ cfg = Cfg(PathP, None) /\ site_url = <<>>
  /\ tmplExists = TRUE /\ tmpl = PLACEHOLDER
  /\ pages = "site"
  /\ srcExists \in BOOLEAN
  /\ srcDir \in IF srcExists THEN SrcDirs ELSE {NoDir}
  /\ docs \in [AssetNames -> {Absent, Stale}]
  /\ site \in [AssetNames -> {Absent, Stale}]
  /\ remote \in Remotes

Init == InitStage

\* the host invokes the callbacks in its lifecycle order
Next ==
  \/ Allowed(phase, "on_config") /\ OnConfig
  \/ Allowed(phase, "on_files") /\ OnFiles
  \/ Allowed(phase, "on_page_content") /\ OnPageContent
  \/ Allowed(phase, "on_post_build") /\ OnPostBuild

Spec == Init /\ [][Next]_vars

\* the callbacks invoked in any order
NextAnyOrder == OnConfig \/ OnFiles \/ OnPageContent \/ OnPostBuild

SpecAnyOrder == Init /\ [][NextAnyOrder]_vars

\* a build whose on_config and on_files have run over the installed assets
InitRendering ==
  /\ plugin_dir = PLUGIN_DIR /\ assets_dir = ASSETS_DIR
  /\ phase = "on_files" /\ inOrder = TRUE /\ builds = 0
  /\ call = [NoCall EXCEPT !.name = "on_files", !.reads = {"assets_dir"}]
  /\ srcExists = TRUE /\ srcDir = Installed /\ docs = Installed /\ site = NoDir
  /\ remote = "ok"
  /\ drv = DrvIdle

\* every configuration of the page injector, and every page
InitPage ==
  /\ InitRendering
  /\ variant \in Variants
  /\ pages = "every"
  /\ IF variant = "mobilewheelsdb"
     THEN /\ cfg \in {Cfg(p, u) : p \in CfgPaths \cup {None}, u \in DbUrls}
          /\ site_url \in {<<>>, <<"s", ":", "/", "/", "s", "/", "s", "/">>}
          /\ tmplExists = FALSE /\ tmpl = <<>>
     ELSE /\ cfg \in {Cfg(p, u) : p \in CfgPaths, u \in DbUrls}
          /\ site_url = <<>>
          /\ tmplExists \in BOOLEAN
          /\ tmpl \in IF tmplExists THEN Templates ELSE {<<>>}

NextPage == OnPageContent

SpecPage == InitPage /\ [][NextPage]_vars

\* the mobilewheelsdb injector over every site_url
InitInject ==
  /\ InitRendering
  /\ variant = "mobilewheelsdb"
  /\ pages = "site"
  /\ cfg \in {Cfg(PathP, u) : u \in DbUrls}
  /\ site_url \in SiteUrls
  /\ tmplExists = FALSE /\ tmpl = <<>>

NextInject == OnPageContent

SpecInject == InitInject /\ [][NextInject]_vars

\* the driver script, started in any state of its working tree
InitDriver ==
  /\ InitNew
  /\ variant = "mobilewheelsdb" /\ cfg = Cfg(None, None) /\ site_url = <<>>
  /\ tmplExists = FALSE /\ tmpl = <<>> /\ pages = "site"
  /\ srcExists = TRUE /\ srcDir = Installed /\ docs = NoDir /\ site = NoDir
  /\ remote = "ok"
  /\ \E a \in BOOLEAN, e \in BOOLEAN, n \in BOOLEAN,
        ws \in {Absent, Prev}, wd \in {Absent, Prev}, wk \in {Absent, Prev} :
       drv = [DrvIdle EXCEPT !.skip_arg = a, !.skip_env = e, !.destNewer = n,
                !.wasm_src = ws, !.wasm_dest = wd, !.wasm_docs = wk]

NextDriver == DrvStart \/ DrvBuild \/ DrvCopy \/ DrvElse \/ DrvServe

SpecDriver == InitDriver /\ [][NextDriver]_vars

(***************************************************************************)
(* The claims                                                              *)
(***************************************************************************)
Rendered == call.name = "on_page_content" /\ ~call.raised
Changed  == call.ret /= call.page.html
PathHit  == call.page.src_path = FStr(cfg.page_path) \o MD
TitleHit == call.page.title = cfg.page_title

\* C1, as stated: on_page_content changes the HTML if and only if the page's
\* source path equals the configured page_path string.
C1_InjectsIffPathEqualsPagePath ==
  Rendered => (Changed <=> call.page.src_path = cfg.page_path)

\* C1, amended: the mobilewheelsdb variant changes the HTML if and only if
\* page_path is set, non-empty, and the source path equals page_path followed by
\* ".md"; the mobilewheels variant changes it only if the source path equals
\* page_path followed by ".md" or the page title equals page_title, and the
\* template file exists
C1_InjectsIffPathEqualsPagePathMd ==
  Rendered =>
    IF variant = "mobilewheelsdb"
    THEN Changed <=> (cfg.page_path /= None /\ cfg.page_path /= <<>> /\ PathHit)
    ELSE Changed => ((PathHit \/ TitleHit) /\ tmplExists)

C1_Witness ==
  /\ Rendered /\ Changed /\ variant = "mobilewheelsdb"
  /\ call.page.src_path = cfg.page_path \o MD
  /\ call.page.src_path /= cfg.page_path

\* where the placeholder occurs in a template, and where in the result the
\* image of the template's position i begins
Occurrences(t) ==
  {i \in 1..(Len(t) - Len(PLACEHOLDER) + 1) :
     SubSeq(t, i, i + Len(PLACEHOLDER) - 1) = PLACEHOLDER}
InPlaceholder(t, i) == \E o \in Occurrences(t) : o < i /\ i < o + Len(PLACEHOLDER)
ImageStart(t, i, d) ==
  (i - 1) + Cardinality({o \in Occurrences(t) : o < i}) * (Len(d) - Len(PLACEHOLDER))
IsSubstituted(r, t, d) ==
  /\ Len(r) = Len(t) + Cardinality(Occurrences(t)) * (Len(d) - Len(PLACEHOLDER))
  /\ \A i \in 1..Len(t) :
       ~InPlaceholder(t, i) =>
         IF i \in Occurrences(t)
         THEN SubSeq(r, ImageStart(t, i, d) + 1, ImageStart(t, i, d) + Len(d)) = d
         ELSE r[ImageStart(t, i, d) + 1] = t[i]

\* C10: a page that is not the target comes back unchanged; in the
\* mobilewheelsdb variant the input is a prefix of the result and an unset or
\* empty page_path injects nowhere; in the mobilewheels variant a target page
\* becomes the template with every placeholder replaced by the database URL, or
\* stays as it is when the template file is missing
C10_FrameOfPageContent ==
  Rendered =>
    /\ ~(PathHit \/ (variant = "mobilewheels" /\ TitleHit)) => ~Changed
    /\ variant = "mobilewheelsdb" =>
         /\ IsPrefix(call.page.html, call.ret)
         /\ cfg.page_path \in {None, <<>>} => ~Changed
    /\ variant = "mobilewheels" /\ (PathHit \/ TitleHit) =>
         IF tmplExists
         THEN IsSubstituted(call.ret, tmpl,
                IF cfg.database_url \in {None, <<>>} THEN ASSETS_URL
                ELSE cfg.database_url)
         ELSE ~Changed

C10_Witness ==
  /\ Rendered /\ variant = "mobilewheels" /\ PathHit /\ ~TitleHit /\ tmplExists
  /\ Cardinality(Occurrences(tmpl)) = 2
  /\ Occurrences(call.ret) = {}

PostBuilt == call.name = "on_post_build" /\ ~call.unsetRead
Staged    == call.name = "on_files" /\ ~call.unsetRead
WritesOf(c) == {c.writes[i] : i \in 1..Len(c.writes)}

\* C2, as stated: in on_post_build of mobilewheelsdb the WASM file is written
\* from the remote artifact whenever the remote is reachable, from the bundled
\* copy only when the remote fetch failed, and never from both in one run.
C2_RemoteWheneverReachable ==
  (PostBuilt /\ variant = "mobilewheelsdb") =>
    /\ remote = "ok" => ("remote" \in WritesOf(call) /\ site[WASM] = RELEASE)
    /\ "bundled" \in WritesOf(call) => remote /= "ok"
    /\ ~("bundled" \in WritesOf(call) /\ WritesOf(call) /= {"bundled"})

\* C2, amended: when no file is at the destination WASM path, the file is
\* written from the remote artifact alone whenever the download succeeds, and
\* from the bundled copy only after the download failed, the bundled copy then
\* being the file's whole content; the complete artifact and the bundled copy
\* are never both written in one run; a file already at the destination is
\* left as it is and neither source is written
C2_RemoteElseBundled ==
  (PostBuilt /\ variant = "mobilewheelsdb") =>
    /\ Exists(call.before[WASM]) =>
         (call.writes = <<>> /\ site[WASM] = call.before[WASM])
    /\ (~Exists(call.before[WASM]) /\ remote = "ok") =>
         (call.writes = <<"remote">> /\ site[WASM] = RELEASE)
    /\ "bundled" \in WritesOf(call) =>
         /\ remote /= "ok" /\ ~Exists(call.before[WASM])
         /\ site[WASM] = srcDir[WASM] /\ IsFile(srcDir[WASM])
    /\ ~({"remote", "bundled"} \subseteq WritesOf(call))

C2_Witness ==
  /\ PostBuilt /\ variant = "mobilewheelsdb" /\ remote = "broken"
  /\ call.writes = <<"remote-partial", "bundled">>
  /\ site[WASM] = Shipped(WASM)

\* C3: when the download fails, at whatever point, and no bundled WASM exists,
\* on_post_build reports an error and no file is at the destination WASM path
\* when it returns.
C3_NoPartialFileLeft ==
  (PostBuilt /\ variant = "mobilewheelsdb" /\ remote /= "ok"
     /\ ~Exists(call.before[WASM]) /\ ~Exists(srcDir[WASM])) =>
    (call.error /\ ~Exists(site[WASM]))

\* C4: staging is idempotent: once a build has staged the assets, on_files of
\* the next build leaves docs_dir/mobilewheels_assets as it found it, and so
\* does on_post_build with site_dir/mobilewheels_assets
C4_StagingIdempotent ==
  /\ (Staged /\ builds >= 1) => docs = call.before
  /\ (PostBuilt /\ ~call.raised /\ builds >= 2) => site = call.before

C4_Witness ==
  /\ PostBuilt /\ builds >= 2 /\ srcExists
  /\ site[JS] = Shipped(JS) /\ site[WASM] = PARTIAL
  /\ docs[EXTRA] = Shipped(EXTRA)

\* the destination of the last staging callback
Destination == IF call.name = "on_files" THEN docs ELSE site

\* C9, as stated: after on_files and after on_post_build every regular file of
\* the assets directory is at the destination with the source's content.
C9_EveryAssetCopied ==
  (Staged \/ PostBuilt) =>
    \A n \in AssetNames : IsFile(srcDir[n]) => Destination[n] = srcDir[n]

\* C9, amended: after on_files and after on_post_build every regular file of
\* the assets directory, other than the files named *.wasm in on_post_build of
\* the mobilewheelsdb variant, is at the destination with the source's content,
\* whatever file was there before; that callback copies no *.wasm asset (the
\* WASM path is left to the download and its fallback)
C9_EveryAssetCopiedButWasm ==
  (Staged \/ PostBuilt) =>
    \A n \in AssetNames :
      IF PostBuilt /\ variant = "mobilewheelsdb" /\ n[2] = ".wasm"
      THEN n /= WASM => Destination[n] = call.before[n]
      ELSE IsFile(srcDir[n]) => Destination[n] = srcDir[n]

C9_Witness ==
  /\ PostBuilt /\ variant = "mobilewheelsdb"
  /\ call.before[JS] = Stale /\ site[JS] = Shipped(JS)
  /\ call.before[EXTRA] = Stale /\ IsFile(srcDir[EXTRA]) /\ site[EXTRA] = Stale

\* C8, as stated: in lifecycle order no callback reads an unset field, and a
\* callback invoked before on_config reads an unset field.
C8_EveryEarlyCallbackReadsUnset ==
  /\ inOrder => ~call.unsetRead
  /\ (assets_dir = Unset /\ call.name /= "none") => call.unsetRead

C8_FieldsState ==
  /\ inOrder => ~call.unsetRead
  /\ (plugin_dir = Unset) <=> (assets_dir = Unset)
  /\ call.name \in {"on_files", "on_post_build"} =>
       (call.reads = {"assets_dir"} /\ (call.unsetRead <=> assets_dir = Unset))
  /\ call.name = "on_page_content" =>
       /\ call.reads = IF variant = "mobilewheels" /\ (PathHit \/ TitleHit)
                       THEN {"plugin_dir"} ELSE {}
       /\ call.unsetRead <=> (call.reads /= {} /\ plugin_dir = Unset)

C8_FieldsStep ==
  /\ (assets_dir /= Unset => assets_dir' = assets_dir)
  /\ (plugin_dir /= Unset => plugin_dir' = plugin_dir)
  /\ (<<plugin_dir, assets_dir>>' /= <<plugin_dir, assets_dir>> =>
        call'.name = "on_config")

\* C8, amended: in lifecycle order on_config sets assets_dir and plugin_dir
\* before any callback reads them and nothing changes them afterwards; invoked
\* before on_config, on_files and on_post_build read the unset assets_dir, and
\* on_page_content reads the unset plugin_dir only in the mobilewheels variant
\* and only for a page that passes its test: otherwise it reads neither field
C8_FieldsSetBeforeRead == []C8_FieldsState /\ [][C8_FieldsStep]_vars

C8_Witness ==
  /\ inOrder /\ call.name = "on_post_build" /\ call.reads = {"assets_dir"}
  /\ ~call.unsetRead /\ assets_dir = ASSETS_DIR /\ builds = 1

\* C5: a failed build, or a build that leaves no binary, ends the script with a
\* non-zero status and mkdocs serve is not launched; mkdocs serve is launched
\* only after the binary has been copied to docs/assets
C5_NoServeWithoutBinary ==
  /\ (drv.buildResult \in {"fail", "nocmd"} \/ drv.binary = "missing") =>
       (drv.pc = "exited" /\ drv.exit = 1 /\ ~drv.served)
  /\ (drv.served \/ drv.pc = "serve") =>
       (drv.copied /\ drv.buildResult = "ok" /\ drv.wasm_docs = drv.wasm_src
          /\ Exists(drv.wasm_docs))

C5_Witness ==
  drv.pc = "exited" /\ drv.buildResult = "ok" /\ drv.binary = "missing" /\ drv.exit = 1

\* C6: with --skip-build among the arguments, or SKIP_BUILD=1 in the
\* environment, the build subprocess is not invoked.
C6_SkipBuildRunsNoBuild ==
  (drv.skip_arg \/ drv.skip_env) => ~drv.built

====
